---- MODULE Spec2Model ----
(***************************************************************************)
(* A model of excavator: the TDA broker calls with their bounded retry     *)
(* (broker/tda.py) and the market-session polling loop, the chain          *)
(* flattener, the CSV sink and the after-hours archival (excavator.py).    *)
(***************************************************************************)
EXTENDS Integers, Sequences, FiniteSets, TLC

(***************************************************************************)
(* Program constants.                                                      *)
(***************************************************************************)
\* range(3) of the three retry loops
Attempts == 3
\* the buffer process_closed_market adds to the sleep until the open, seconds
OpenBuffer == 15
\* seconds in a minute (replace(second=0, microsecond=0), timedelta(minutes=..))
Minute == 60

(***************************************************************************)
(* Bounds of the model.                                                    *)
(***************************************************************************)
\* broker calls served before the broker model stops taking new ones
MaxServed == 2
\* the calendar the upstream serves, in whole minutes: the length of a day,
\* and the minutes of the day at which its regular session opens and closes
DayMinutes == 6
OpenMinute == 2
CloseMinute == 4
\* the last day of the calendar; the clock stops at the end of that day
MaxDay == 2
\* seconds the clock may advance in a run while the program is not asleep
MaxTicks == 2
\* after-hours archivals in a row, without a chain fetch between them
MaxArchRuns == 3
\* expiration dates and strikes per expiration in a chain snapshot
MaxKey == 2
MaxStrikes == 2
\* the largest polling interval a process is configured with, minutes, and
\* the minutes of the clock within which an iteration may end
MaxInterval == 2
SleepMinutes == 3

(***************************************************************************)
(* State of one broker call (broker/tda.py).                               *)
(***************************************************************************)
VARIABLES
    bfn,        \* the broker call in progress: "chain", "quote", "hours" or "none"
    bparams,    \* get_option_chain's params: "None", "invalid" or "valid"
    attempt,    \* the loop variable of the retry loop
    upCalls,    \* upstream calls made so far by the call in progress
    bpc,        \* "idle", "loop", "returned" or "escaped"
    bresult,    \* what the call returned, "None" for None; "unset" before
    outs,       \* the upstream's answers to the attempts of the call, in order
    served      \* broker calls completed so far

brokerVars == <<bfn, bparams, attempt, upCalls, bpc, bresult, outs, served>>

(***************************************************************************)
(* State of the scheduler (excavator.py).                                  *)
(***************************************************************************)
VARIABLES
    clock,          \* the wall clock, in seconds (US/Eastern)
    ticks,          \* seconds the clock advanced while the program was not asleep
    pc,             \* the control point of dig()
    crash,          \* the exception that ended the process, "none" while it runs
    data_interval,  \* Excavator.data_interval, minutes
    market_hours,   \* dig's market_hours
    now,            \* dig's now
    closed_hours,   \* process_closed_market's local market_hours
    date,           \* the date argument of the get_next_market_hours in progress
    caller,         \* who called get_next_market_hours: "dig" or "closed"
    option_chain,   \* process_open_market's option_chain
    vix,            \* process_open_market's vix
    side,           \* the map process_open_market iterates: "put" or "call"
    idx,            \* position of the current expiration in that map
    strike_list,    \* process_expiration's strike_list
    fs,             \* the results folders, one per day
    world           \* the run explored: the expirations the upstream lists, and
                    \* the clock reading at which the exploration stops

\* What the run has done so far (kept for the properties, the program has no
\* such fields).
VARIABLES
    branch,         \* what the last pass of dig's loop did
    archRuns,       \* process_after_hours calls since the last chain fetch
    sleepArg,       \* <<t>> when the last step was time.sleep(t), else <<>>
    queries,        \* the market-hours queries of the resolution in progress or just done
    resolves,       \* calls of get_next_market_hours made by dig and process_closed_market
    firstNow,       \* the now of the first pass of dig's loop; -1 before
                    \* that pass, -2 from the second chain fetch on
    firstFetchAt,   \* the clock at the first chain fetch; -1 before that
                    \* fetch, -2 from the second chain fetch on
    sleptSinceFetch,\* a time.sleep happened since the last chain fetch
    flattened,      \* process_expiration calls of the current open-market iteration
    iterWrites,     \* the save_to_csv calls of the current iteration: day, file, rows
    saved,          \* per day and file name, the batches save_to_csv was given, in order
    archivedFrom    \* the folder as it was before the last archival run on its own

schedVars == <<clock, ticks, pc, crash, data_interval, market_hours, now,
               closed_hours, date, caller, option_chain, vix, side, idx,
               strike_list, fs, world>>

histVars == <<branch, archRuns, sleepArg, queries, resolves, firstNow,
              firstFetchAt, sleptSinceFetch, flattened, iterWrites, saved,
              archivedFrom>>

vars == <<brokerVars, schedVars, histVars>>

BrokerCalls == {"chain", "quote", "hours"}

\* What one upstream attempt can do.  "raise" is an exception of class
\* Exception thrown by the TD client (or by getsession()); the other values
\* are responses.
\*   chain: the "status" field of the response
\*   quote: the "status" field of the response, "absent" when it has none
\*   hours: the shape of the response: None, no entry for the product, an
\*          entry without sessionHours, sessionHours without regularMarket,
\*          or a regular session
Upstream(fn) ==
    CASE fn = "chain" -> {"raise", "FAILED", "SUCCESS"}
      [] fn = "quote" -> {"raise", "FAILED", "absent"}
      [] fn = "hours" -> {"raise", "null", "noproduct", "nohours", "noregular", "session"}

\* The exception an attempt ends with, "none" when it ends normally:
\* get_option_chain raises BaseException itself on a FAILED status.
AttemptRaises(fn, out) ==
    IF out = "raise" THEN "Exception"
    ELSE IF fn = "chain" /\ out = "FAILED" THEN "BaseException"
    ELSE "none"

\* The except clause of each retry loop: BaseException in get_option_chain,
\* Exception in get_market_hours and get_quote.
Catches(fn, exc) ==
    IF fn = "chain" THEN exc \in {"Exception", "BaseException"}
    ELSE exc = "Exception"

\* the same test against the length of the range instead of its last index
IsLastAttemptNever(a) == a = Attempts

\* `if attempt == 3 - 1: return None`
IsLastAttempt(a) == a = Attempts - 1

\* What follows the retry loop of get_market_hours once an attempt has given
\* a response: the value returned, or "escape" when an exception leaves the call.
HoursResult(out) ==
    CASE out = "null"      -> "None"      \* if hours is None: return None
      [] out = "noproduct" -> "None"      \* no type == request["product"]
      [] out = "nohours"   -> "escape"    \* details.get("sessionHours", dict).items()
      [] out = "noregular" -> "escape"    \* response is unbound in process_session_hours
      [] out = "session"   -> "session"

\* The value a call returns after an attempt that ended normally with out.
NormalResult(fn, out) ==
    IF fn = "hours" THEN HoursResult(out) ELSE out

\* a loop body without the `return` or `break` that follows a response
AttemptStepNoBreak(fn, a, out) ==
    IF a + 1 < Attempts
    THEN [pc |-> "loop", result |-> "unset", attempt |-> a + 1]
    ELSE [pc |-> "returned",
          result |-> IF out = "raise" THEN "None" ELSE out, attempt |-> a]

\* One pass of the loop body on upstream answer out, at loop variable a:
\* the next control point, the result and the next loop variable.
AttemptStep(fn, a, out) ==
    LET exc == AttemptRaises(fn, out) IN
    IF exc = "none"
    THEN LET r == NormalResult(fn, out) IN
         IF r = "escape"
         THEN [pc |-> "escaped", result |-> "unset", attempt |-> a]
         ELSE [pc |-> "returned", result |-> r, attempt |-> a]
    ELSE IF ~Catches(fn, exc)
    THEN [pc |-> "escaped", result |-> "unset", attempt |-> a]
    ELSE IF IsLastAttempt(a)
    THEN [pc |-> "returned", result |-> "None", attempt |-> a]
    ELSE IF a + 1 < Attempts
    THEN [pc |-> "loop", result |-> "unset", attempt |-> a + 1]
    \* the range is exhausted: get_option_chain reaches its final
    \* `return None`; the other two read a variable that was never bound
    ELSE IF fn = "chain"
    THEN [pc |-> "returned", result |-> "None", attempt |-> a]
    ELSE [pc |-> "escaped", result |-> "unset", attempt |-> a]

BrokerInit ==
    /\ bfn = "none"
    /\ bparams = "valid"
    /\ attempt = 0
    /\ upCalls = 0
    /\ bpc = "idle"
    /\ bresult = "unset"
    /\ outs = <<>>
    /\ served = 0

\* A whole broker call on the upstream answers o (one per possible attempt):
\* the control point and the result it ends with, and the upstream answer
\* of its last attempt.
RECURSIVE Retry(_, _, _)
Retry(fn, a, o) ==
    LET s == AttemptStep(fn, a, o[1]) IN
    IF s.pc = "loop" THEN Retry(fn, s.attempt, Tail(o))
    ELSE [pc |-> s.pc, result |-> s.result, last |-> o[1]]

\* How a broker call with a valid request can end.
BrokerOutcomes(fn) ==
    { Retry(fn, 0, o) : o \in [1..Attempts -> Upstream(fn)] }

ChainOutcomes == BrokerOutcomes("chain")
QuoteOutcomes == BrokerOutcomes("quote")
HoursOutcomes == BrokerOutcomes("hours")

\* a get_option_chain that goes to the upstream whatever the request is
ValidRequestAlways(p) == TRUE

\* lines 57-66: the request is not None and validate_chain() accepts it
ValidRequest(p) == p # "None" /\ p # "invalid"

\* get_option_chain(params) up to its retry loop
CallChain ==
    /\ bpc = "idle"
    /\ served < MaxServed
    /\ \E p \in {"None", "invalid", "valid"} :
        /\ bparams' = p
        /\ IF ValidRequest(p)
           THEN bpc' = "loop" /\ bresult' = "unset"
           ELSE bpc' = "returned" /\ bresult' = "None"
    /\ bfn' = "chain"
    /\ attempt' = 0
    /\ upCalls' = 0
    /\ outs' = <<>>
    /\ UNCHANGED served
    /\ UNCHANGED <<schedVars, histVars>>

\* get_quote(ticker) and get_market_hours(request) up to their retry loops
CallOther ==
    /\ bpc = "idle"
    /\ served < MaxServed
    /\ \E fn \in {"quote", "hours"} : bfn' = fn
    /\ bparams' = "valid"
    /\ bpc' = "loop"
    /\ bresult' = "unset"
    /\ attempt' = 0
    /\ upCalls' = 0
    /\ outs' = <<>>
    /\ UNCHANGED served
    /\ UNCHANGED <<schedVars, histVars>>

\* one attempt of the retry loop of the call in progress
Attempt ==
    /\ bpc = "loop"
    /\ \E out \in Upstream(bfn) :
        LET s == AttemptStep(bfn, attempt, out) IN
        /\ upCalls' = upCalls + 1
        /\ outs' = Append(outs, out)
        /\ bpc' = s.pc
        /\ bresult' = s.result
        /\ attempt' = s.attempt
    /\ UNCHANGED <<bfn, bparams, served>>
    /\ UNCHANGED <<schedVars, histVars>>

\* the caller takes the result (or the exception) and the broker is free again
BrokerDone ==
    /\ bpc \in {"returned", "escaped"}
    /\ bpc' = "idle"
    /\ bfn' = "none"
    /\ bparams' = "valid"
    /\ attempt' = 0
    /\ upCalls' = 0
    /\ bresult' = "unset"
    /\ outs' = <<>>
    /\ served' = served + 1
    /\ UNCHANGED <<schedVars, histVars>>



(***************************************************************************)
(* The clock, the calendar and the results folders.                        *)
(***************************************************************************)
\* the calendar in seconds: the regular session of day d is
\* [d * DayLen + OpenAt, d * DayLen + CloseAt]
DayLen == DayMinutes * Minute
OpenAt == OpenMinute * Minute
CloseAt == CloseMinute * Minute

MaxClock == (MaxDay + 1) * DayLen - 1

\* strftime("%Y%m%d") of a clock reading: the day it falls in (the host's
\* clock and the exchange's are taken to be in one time zone)
Day(t) == t \div DayLen

\* replace(second=0, microsecond=0)
Truncated(t) == t - (t % Minute)

\* The regular session the upstream has for a date.
Session(d) == [start |-> d * DayLen + OpenAt, end |-> d * DayLen + CloseAt]

\* None where a GetMarketHoursResponseMessage is expected, and a
\* market_hours that was not assigned yet
NoHours == [start |-> -1, end |-> -1]

\* The default of get_next_market_hours' date argument, evaluated once when
\* the class is defined: the day the process started.
DefaultDate == 0

\* A file name is the sequence of its dot-separated parts.
EndsWith(name, ext) == Len(name) > 0 /\ name[Len(name)] = ext

\* a file name that leaves the expiration date out
FileNameNoDate(key) == <<"SPX", "csv">>

\* save_to_csv's file_name for an expiration key: the ticker without "$"
\* up to its first ".", the date of the key, "csv"
FileName(key) == <<"SPX", ToString(key), "csv">>

NoFiles == [n \in {} |-> 0]
NoFolder == [exists |-> FALSE, files |-> NoFiles]
Header == [Time |-> -1, PutCall |-> "PutCall", Strike |-> -1]

\* a compression that loses the lines
GzipNothing(content, t) == [kind |-> "gzip", mtime |-> t, lines |-> <<>>]

\* gzip.open(.., "wb").writelines(lines): the header of the member carries
\* the time of the compression, the body the lines
Gzip(content, t) == [kind |-> "gzip", mtime |-> t, lines |-> content.lines]
Gunzip(content) == [kind |-> "plain", mtime |-> 0, lines |-> content.lines]
Plain(lines) == [kind |-> "plain", mtime |-> 0, lines |-> lines]

\* process_after_hours on an existing folder, at clock t
AfterHours(folder, t) ==
    LET csvs == {n \in DOMAIN folder.files : EndsWith(n, "csv")}
        gzs  == {Append(n, "gz") : n \in csvs}
    IN [exists |-> TRUE,
        files  |-> [n \in DOMAIN folder.files \cup gzs |->
                      IF n \in gzs
                      THEN Gzip(folder.files[SubSeq(n, 1, Len(n) - 1)], t)
                      ELSE folder.files[n]]]

\* a to_csv with header=True on every call
SaveToCsvHeaderAlways(folder, name, rows) ==
    [exists |-> TRUE,
     files  |-> IF name \in DOMAIN folder.files
                THEN [folder.files EXCEPT ![name] = Plain(@.lines \o <<Header>> \o rows)]
                ELSE (name :> Plain(<<Header>> \o rows)) @@ folder.files]

\* to_csv(output_path, mode="a", header=not os.path.exists(output_path))
\* after os.makedirs of a missing folder
SaveToCsv(folder, name, rows) ==
    [exists |-> TRUE,
     files  |-> IF name \in DOMAIN folder.files
                THEN [folder.files EXCEPT ![name] = Plain(@.lines \o rows)]
                ELSE (name :> Plain(<<Header>> \o rows)) @@ folder.files]

(***************************************************************************)
(* Chain snapshots.  An expiration map is an ordered mapping from          *)
(* expiration key to strikes; the strikes of an entry are 1..n.            *)
(***************************************************************************)
Keys == 1..MaxKey

\* the entries of a map that lists the expirations ks, each with n strikes,
\* in upstream (date) order
RECURSIVE EntriesOf(_, _)
EntriesOf(ks, n) ==
    IF ks = {} THEN <<>>
    ELSE LET k == CHOOSE x \in ks : \A y \in ks : x <= y
         IN <<[key |-> k, n |-> n]>> \o EntriesOf(ks \ {k}, n)

\* the expiration maps the upstream may list
ExpLists == {EntriesOf(ks, n) : ks \in SUBSET Keys, n \in 1..MaxStrikes}

\* a key that is absent, a key whose value is None, or a map
Missing == [state |-> "missing", entries |-> <<>>]
Null    == [state |-> "None", entries |-> <<>>]
Listed(l) == [state |-> "map", entries |-> l]

NoChain == [fetched |-> "unset", put |-> Missing, call |-> Missing]

\* the snapshots a successful fetch can give in run w: the expirations the
\* upstream lists do not change during a run, but either map can be absent
\* or None in a response
Chains(w) ==
    [fetched : {"chain"},
     put : {Missing, Null, Listed(w.put)},
     call : {Missing, Null, Listed(w.call)}]

\* the runs explored: every listing of put and call expirations up to the
\* clock reading h, or one put and one call expiration of one strike
Worlds(rich, h) ==
    LET lists == IF rich THEN ExpLists ELSE {<<[key |-> 1, n |-> 1]>>}
    IN [put : lists, call : lists, horizon : {h}]

(***************************************************************************)
(* The scheduler: dig() and what it calls.                                 *)
(***************************************************************************)
HistInit ==
    /\ branch = "none"
    /\ archRuns = 0
    /\ sleepArg = <<>>
    /\ queries = <<>>
    /\ resolves = 0
    /\ firstNow = -1
    /\ firstFetchAt = -1
    /\ sleptSinceFetch = TRUE
    /\ flattened = 0
    /\ iterWrites = <<>>
    /\ saved = NoFiles
    /\ archivedFrom = NoFolder

EmptyFolder == [exists |-> TRUE, files |-> NoFiles]

\* the state after Excavator() at clock t, in run w, every day's results
\* folder being f
SchedInit(t, w, f) ==
    /\ clock = t
    /\ ticks = 0
    /\ pc = "start"
    /\ crash = "none"
    /\ data_interval = 1
    /\ market_hours = NoHours
    /\ now = -1
    /\ closed_hours = NoHours
    /\ date = DefaultDate
    /\ caller = "dig"
    /\ option_chain = NoChain
    /\ vix = "unset"
    /\ side = "put"
    /\ idx = 1
    /\ strike_list = <<>>
    /\ fs = [d \in 0..MaxDay |-> f]
    /\ world = w
    /\ HistInit

\* the clock advances while the program computes or waits for the upstream
Tick ==
    /\ pc \notin {"idle", "crashed"}
    /\ ticks < MaxTicks
    /\ clock < world.horizon
    /\ clock' = clock + 1
    /\ ticks' = ticks + 1
    /\ UNCHANGED <<pc, crash, data_interval, market_hours, now, closed_hours,
                   date, caller, option_chain, vix, side, idx, strike_list,
                   fs, world>>
    /\ UNCHANGED <<brokerVars, histVars>>

\* the locals of a process_open_market that has returned are gone
ForgetLocals ==
    /\ option_chain' = NoChain
    /\ vix' = "unset"
    /\ side' = "put"
    /\ idx' = 1
    /\ strike_list' = <<>>

\* an uncaught exception leaves dig()
Raise(exc) ==
    /\ pc' = "crashed"
    /\ crash' = exc

\* dig, line 48: market_hours = self.get_next_market_hours()
dig_start ==
    /\ pc = "start"
    /\ pc' = "resolve"
    /\ date' = DefaultDate
    /\ caller' = "dig"
    /\ queries' = <<>>
    /\ resolves' = resolves + 1
    /\ UNCHANGED ticks
    /\ UNCHANGED <<clock, crash, data_interval, market_hours, now, closed_hours,
                   option_chain, vix, side, idx, strike_list, fs, world>>
    /\ UNCHANGED <<branch, archRuns, sleepArg, firstNow, firstFetchAt,
                   sleptSinceFetch, flattened, iterWrites, saved, archivedFrom>>
    /\ UNCHANGED brokerVars

\* the same test on the start of the session instead of its end
RollsForwardOnStart(hours, t) == hours = NoHours \/ hours.start < t

\* `hours is None or hours.end < dt.datetime.now(tz=timezone("US/Eastern"))`
RollsForward(hours, t) == hours = NoHours \/ hours.end < t

\* a roll that skips a day
NextDateSkips(d) == d + 2

\* `date + dt.timedelta(days=1)`
NextDate(d) == d + 1

\* one call of get_next_market_hours(date): the broker call, then either the
\* recursive call on date + 1 day or the return to the caller
get_next_market_hours ==
    /\ pc = "resolve"
    /\ UNCHANGED ticks
    /\ \E o \in HoursOutcomes :
        LET hours == IF o.result = "session" THEN Session(date) ELSE NoHours IN
        /\ queries' = Append(queries, [date |-> date, answer |-> o.last,
                                       hours |-> hours, at |-> clock])
        /\ IF o.pc = "escaped"
           \* dict.items() on the class dict, or process_session_hours'
           \* response that was never bound
           THEN /\ Raise(IF o.last = "nohours" THEN "TypeError"
                         ELSE "UnboundLocalError")
                /\ UNCHANGED <<date, market_hours, closed_hours>>
           ELSE
             /\ UNCHANGED crash
             /\ IF RollsForward(hours, clock)
                THEN /\ date < MaxDay
                     /\ date' = NextDate(date)
                     /\ UNCHANGED <<pc, market_hours, closed_hours>>
                ELSE /\ UNCHANGED date
                     /\ IF caller = "dig"
                        THEN /\ market_hours' = hours
                             /\ pc' = "loop"
                             /\ UNCHANGED closed_hours
                        ELSE /\ closed_hours' = hours
                             /\ pc' = "closed_sleep"
                             /\ UNCHANGED market_hours
    /\ UNCHANGED <<clock, data_interval, now, caller, option_chain, vix, side,
                   idx, strike_list, fs, world>>
    /\ UNCHANGED <<branch, archRuns, sleepArg, resolves, firstNow, firstFetchAt,
                   sleptSinceFetch, flattened, iterWrites, saved, archivedFrom>>
    /\ UNCHANGED brokerVars

\* `now < market_hours.start or market_hours.end < now`
IsClosed(hours, t) == t < hours.start \/ hours.end < t

\* `market_hours.start < now < market_hours.end`
IsOpen(hours, t) == hours.start < t /\ t < hours.end

\* a process_closed_market that archives and re-resolves on every call
ClosedEarlierAlways(hours, t) == TRUE

\* `if market_hours.start < now:` of process_closed_market
ClosedEarlier(hours, t) == hours.start < t

\* one pass of dig's loop up to the first call that takes time: now is read,
\* and the closed branch enters process_closed_market
dig_loop ==
    /\ pc = "loop"
    /\ UNCHANGED ticks
    /\ now' = clock
    /\ firstNow' = IF firstNow = -1 THEN clock ELSE firstNow
    /\ IF IsClosed(market_hours, clock)
       THEN /\ branch' = "closed"
            /\ closed_hours' = market_hours
            /\ pc' = IF ClosedEarlier(market_hours, clock)
                     THEN "after_hours" ELSE "closed_sleep"
       ELSE IF IsOpen(market_hours, clock)
       THEN /\ branch' = "open"
            /\ pc' = "open"
            /\ UNCHANGED closed_hours
       ELSE /\ branch' = "neither"
            /\ pc' = "loop"
            /\ UNCHANGED closed_hours
    /\ ForgetLocals
    /\ UNCHANGED <<clock, crash, data_interval, market_hours, date, caller,
                   fs, world>>
    /\ sleepArg' = <<>>
    /\ queries' = <<>>
    /\ UNCHANGED <<archRuns, resolves, firstFetchAt, sleptSinceFetch,
                   flattened, iterWrites, saved, archivedFrom>>
    /\ UNCHANGED brokerVars

\* process_after_hours, then line 104 of process_closed_market calls
\* get_next_market_hours()
process_after_hours ==
    /\ pc = "after_hours"
    /\ archRuns < MaxArchRuns
    /\ UNCHANGED ticks
    /\ archRuns' = archRuns + 1
    /\ IF ~fs[Day(clock)].exists
       THEN /\ Raise("FileNotFoundError")
            /\ UNCHANGED <<fs, date, caller, queries, resolves>>
       ELSE /\ fs' = [fs EXCEPT ![Day(clock)] = AfterHours(@, clock)]
            /\ pc' = "resolve"
            /\ date' = DefaultDate
            /\ caller' = "closed"
            /\ queries' = <<>>
            /\ resolves' = resolves + 1
            /\ UNCHANGED crash
    /\ UNCHANGED <<clock, data_interval, market_hours, now, closed_hours,
                   option_chain, vix, side, idx, strike_list, world>>
    /\ UNCHANGED <<branch, sleepArg, firstNow, firstFetchAt, sleptSinceFetch,
                   flattened, iterWrites, saved, archivedFrom>>
    /\ UNCHANGED brokerVars

\* time.sleep(t): ValueError on a negative t, else the process is suspended
\* for t seconds
Sleep(t) ==
    /\ sleepArg' = <<t>>
    /\ IF t < 0
       THEN /\ Raise("ValueError")
            /\ UNCHANGED <<clock, sleptSinceFetch>>
       ELSE /\ clock + t <= world.horizon
            /\ clock' = clock + t
            /\ sleptSinceFetch' = TRUE
            /\ pc' = "loop"
            /\ UNCHANGED crash

\* lines 107-113 of process_closed_market
closed_sleep ==
    /\ pc = "closed_sleep"
    /\ UNCHANGED ticks
    /\ Sleep((closed_hours.start - now) + OpenBuffer)
    /\ UNCHANGED <<data_interval, market_hours, now, closed_hours, date, caller,
                   option_chain, vix, side, idx, strike_list, fs, world>>
    /\ UNCHANGED <<branch, archRuns, queries, resolves, firstNow, firstFetchAt,
                   flattened, iterWrites, saved, archivedFrom>>
    /\ UNCHANGED brokerVars


\* process_open_market up to its validation: the chain is fetched and checked
process_open_market ==
    /\ pc = "open"
    /\ UNCHANGED ticks
    /\ archRuns' = 0
    /\ firstFetchAt' = IF firstFetchAt = -1 THEN clock ELSE -2
    /\ sleptSinceFetch' = FALSE
    /\ flattened' = 0
    /\ iterWrites' = <<>>
    /\ \E o \in ChainOutcomes :
        IF o.pc = "escaped"
        THEN Raise("BaseException") /\ UNCHANGED option_chain
        ELSE IF o.result = "None"
        \* the list given to any() is built whole: None["callExpDateMap"]
        THEN /\ option_chain' = [NoChain EXCEPT !.fetched = "None"]
             /\ Raise("TypeError")
        ELSE \E c \in Chains(world) :
             /\ option_chain' = c
             /\ IF c.call.state = "missing" THEN Raise("KeyError")
                ELSE IF c.call.state = "None"
                THEN pc' = "loop" /\ UNCHANGED crash
                ELSE pc' = "vix" /\ UNCHANGED crash
    /\ UNCHANGED <<clock, data_interval, market_hours, now, closed_hours, date,
                   caller, vix, side, idx, strike_list, fs, world>>
    /\ firstNow' = IF firstFetchAt = -1 THEN firstNow ELSE -2
    /\ UNCHANGED <<branch, sleepArg, queries, resolves, saved, archivedFrom>>
    /\ UNCHANGED brokerVars

\* line 81: vix = self.broker.get_quote("$VIX.X"); a response with a FAILED
\* status may or may not carry the quote of the instrument
get_vix ==
    /\ pc = "vix"
    /\ UNCHANGED ticks
    /\ \E o \in QuoteOutcomes :
        IF o.pc = "escaped"
        THEN Raise("UnboundLocalError") /\ UNCHANGED <<vix, side, idx>>
        ELSE /\ vix' \in (CASE o.result = "None"   -> {"None"}
                            [] o.result = "absent" -> {"quote"}
                            [] o.result = "FAILED" -> {"quote", "noentry"})
             /\ side' = "put"
             /\ idx' = 1
             /\ pc' = "expirations"
             /\ UNCHANGED crash
    /\ UNCHANGED <<clock, data_interval, market_hours, now, closed_hours, date,
                   caller, option_chain, strike_list, fs, world>>
    /\ UNCHANGED histVars
    /\ UNCHANGED brokerVars

\* the two loops taking each other's map
CurrentMapSwapped == IF side = "put" THEN option_chain.call ELSE option_chain.put

\* the map the loop at line 84 or at line 90 iterates
CurrentMap == IF side = "put" THEN option_chain.put ELSE option_chain.call

\* the head of the two for loops of process_open_market, and the evaluation
\* of the arguments of process_expiration
next_expiration ==
    /\ pc = "expirations"
    /\ UNCHANGED ticks
    /\ IF CurrentMap.state = "missing"
       THEN Raise("KeyError") /\ UNCHANGED <<side, idx, strike_list, flattened>>
       ELSE IF CurrentMap.state = "None"
       THEN Raise("TypeError") /\ UNCHANGED <<side, idx, strike_list, flattened>>
       ELSE IF idx <= Len(CurrentMap.entries)
       THEN IF vix = "None"
            THEN Raise("TypeError") /\ UNCHANGED <<side, idx, strike_list, flattened>>
            ELSE IF vix = "noentry"
            THEN Raise("KeyError") /\ UNCHANGED <<side, idx, strike_list, flattened>>
            ELSE /\ pc' = "strikes"
                 /\ strike_list' = <<>>
                 /\ flattened' = flattened + 1
                 /\ UNCHANGED <<crash, side, idx>>
       ELSE IF side = "put"
       THEN /\ side' = "call"
            /\ idx' = 1
            /\ UNCHANGED <<pc, crash, strike_list, flattened>>
       ELSE /\ pc' = "iteration_sleep"
            /\ UNCHANGED <<crash, side, idx, strike_list, flattened>>
    /\ UNCHANGED <<clock, data_interval, market_hours, now, closed_hours, date,
                   caller, option_chain, vix, fs, world>>
    /\ UNCHANGED <<branch, archRuns, sleepArg, queries, resolves, firstNow,
                   firstFetchAt, sleptSinceFetch, iterWrites, saved, archivedFrom>>
    /\ UNCHANGED brokerVars

\* process_strike on the next strike of the current expiration
process_strike ==
    /\ pc = "strikes"
    /\ UNCHANGED ticks
    /\ LET k == Len(strike_list) + 1
           \* now_rounded of this call of process_strike
           row == [Time    |-> Truncated(clock),
                   PutCall |-> IF side = "put" THEN "P" ELSE "C",
                   Strike  |-> k]
       IN /\ strike_list' = Append(strike_list, row)
          /\ pc' = IF k = CurrentMap.entries[idx].n THEN "save" ELSE "strikes"
    /\ UNCHANGED <<clock, crash, data_interval, market_hours, now, closed_hours,
                   date, caller, option_chain, vix, side, idx, fs, world>>
    /\ UNCHANGED histVars
    /\ UNCHANGED brokerVars

\* lines 141-144 of process_expiration: save_to_csv(df, expiration[0])
save_to_csv ==
    /\ pc = "save"
    /\ UNCHANGED ticks
    /\ LET name == FileName(CurrentMap.entries[idx].key) IN
        /\ fs' = [fs EXCEPT ![Day(clock)] = SaveToCsv(@, name, strike_list)]
        /\ iterWrites' = Append(iterWrites,
              [day |-> Day(clock), file |-> name, side |-> side,
               rows |-> Len(strike_list)])
        /\ saved' = LET f == <<Day(clock), name>> IN
                     IF f \in DOMAIN saved
                     THEN [saved EXCEPT ![f] = Append(@, strike_list)]
                     ELSE (f :> <<strike_list>>) @@ saved
    /\ idx' = idx + 1
    /\ pc' = "expirations"
    /\ UNCHANGED <<clock, crash, data_interval, market_hours, now, closed_hours,
                   date, caller, option_chain, vix, side, strike_list, world>>
    /\ UNCHANGED <<branch, archRuns, sleepArg, queries, resolves, firstNow,
                   firstFetchAt, sleptSinceFetch, flattened, archivedFrom>>
    /\ UNCHANGED brokerVars

\* iteration_sleep: to the minute now_rounded + data_interval; then
\* process_open_market returns to dig's loop
iteration_sleep ==
    /\ pc = "iteration_sleep"
    /\ UNCHANGED ticks
    /\ Sleep((Truncated(clock) + data_interval * Minute) - clock)
    /\ ForgetLocals
    /\ flattened' = 0
    /\ iterWrites' = <<>>
    /\ UNCHANGED <<data_interval, market_hours, now, closed_hours, date, caller,
                   fs, world>>
    /\ UNCHANGED <<branch, archRuns, queries, resolves, firstNow, firstFetchAt,
                   saved, archivedFrom>>
    /\ UNCHANGED brokerVars

DigNext ==
    \/ Tick
    \/ dig_start
    \/ get_next_market_hours
    \/ dig_loop
    \/ process_after_hours
    \/ closed_sleep
    \/ process_open_market
    \/ get_vix
    \/ next_expiration
    \/ process_strike
    \/ save_to_csv
    \/ iteration_sleep

\* the clock readings the process may start at: before the open, at the
\* open, inside the session shortly before a minute ends, after the close
StartClocks == {OpenAt - 10, OpenAt, OpenAt + Minute - 1, CloseAt + 1}

DigInit ==
    /\ BrokerInit
    /\ \E t \in StartClocks, f \in {NoFolder, EmptyFolder},
          w \in Worlds(FALSE, MaxClock) : SchedInit(t, w, f)

Spec == DigInit /\ [][DigNext]_vars

\* The open market on its own: a process started inside the first session,
\* shortly before a minute ends, followed up to the close of that session,
\* with the upstream serving every shape of chain.
PollInit ==
    /\ BrokerInit
    /\ \E w \in Worlds(TRUE, CloseAt - 1) : SchedInit(OpenAt + Minute - 1, w, NoFolder)

PollNext ==
    \/ Tick
    \/ dig_start
    \/ get_next_market_hours
    \/ dig_loop
    \/ process_open_market
    \/ get_vix
    \/ next_expiration
    \/ process_strike
    \/ save_to_csv
    \/ iteration_sleep

SpecPoll == PollInit /\ [][PollNext]_vars

\* The broker on its own: the scheduler is not running.
SpecBrokerInit ==
    /\ BrokerInit
    /\ \E w \in Worlds(FALSE, 0) : SchedInit(0, w, NoFolder)

BrokerNext == CallChain \/ CallOther \/ Attempt \/ BrokerDone

SpecBroker == SpecBrokerInit /\ [][BrokerNext]_vars


(***************************************************************************)
(* The archival on its own: process_after_hours on a results folder that   *)
(* earlier runs have left behind, run up to MaxArchRuns times.             *)
(***************************************************************************)
Row(t, pcall) == [Time |-> t, PutCall |-> pcall, Strike |-> 1]

\* what save_to_csv can have written into a .csv file
CsvContents ==
    {Plain(<<Header, Row(0, "P")>>), Plain(<<Header, Row(0, "P"), Row(Minute, "C")>>)}

CsvNames == {FileName(k) : k \in Keys}

\* the folders of a day: some .csv files written by save_to_csv, the
\* .csv.gz an earlier archival made of some of them, possibly a .csv.gz
\* whose .csv is gone, and a file that is neither
Folders ==
    { [exists |-> TRUE,
       files  |-> [n \in csv \cup {Append(m, "gz") : m \in gz} \cup other |->
                     IF n \in csv THEN c
                     ELSE IF n \in other THEN Plain(<<>>)
                     ELSE Gzip(c, 0)]] :
        csv \in SUBSET CsvNames, gz \in SUBSET CsvNames,
        c \in CsvContents, other \in SUBSET {<<"notes", "txt">>} }

ArchiveInit ==
    /\ BrokerInit
    /\ \E f \in Folders, w \in Worlds(FALSE, MaxTicks + 1) : SchedInit(1, w, f)

\* process_after_hours() called on the folder of the day
archive ==
    /\ pc = "start"
    /\ archRuns < MaxArchRuns
    /\ fs[Day(clock)].exists
    /\ archivedFrom' = fs[Day(clock)]
    /\ fs' = [fs EXCEPT ![Day(clock)] = AfterHours(@, clock)]
    /\ archRuns' = archRuns + 1
    /\ UNCHANGED <<clock, ticks, pc, crash, data_interval, market_hours, now,
                   closed_hours, date, caller, option_chain, vix, side, idx,
                   strike_list, world>>
    /\ UNCHANGED <<branch, sleepArg, queries, resolves, firstNow, firstFetchAt,
                   sleptSinceFetch, flattened, iterWrites, saved>>
    /\ UNCHANGED brokerVars

ArchiveNext == Tick \/ archive

SpecArchive == ArchiveInit /\ [][ArchiveNext]_vars

(***************************************************************************)
(* iteration_sleep on its own: an open-market iteration of a process       *)
(* configured with any polling interval ends at any second of the clock.   *)
(***************************************************************************)
\* a snapshot without expirations, all of which has been persisted
EmptyChain == [fetched |-> "chain", put |-> Listed(<<>>), call |-> Listed(<<>>)]

SleepInit ==
    /\ BrokerInit
    /\ \E t \in 0..(SleepMinutes * Minute - 1), i \in 1..MaxInterval :
        /\ clock = t
        /\ data_interval = i
    /\ ticks = 0
    /\ pc = "iteration_sleep"
    /\ crash = "none"
    /\ market_hours = [start |-> -2, end |-> (SleepMinutes + MaxInterval) * Minute + 1]
    /\ now = 0
    /\ closed_hours = NoHours
    /\ date = DefaultDate
    /\ caller = "dig"
    /\ option_chain = EmptyChain
    /\ vix = "quote"
    /\ side = "call"
    /\ idx = 1
    /\ strike_list = <<>>
    /\ fs = [d \in 0..MaxDay |-> NoFolder]
    /\ world = [put |-> <<>>, call |-> <<>>,
                horizon |-> (SleepMinutes + MaxInterval) * Minute]
    /\ HistInit

SleepNext == iteration_sleep

SpecSleep == SleepInit /\ [][SleepNext]_vars

(***************************************************************************)
(* Properties.                                                             *)
(***************************************************************************)
\* Every upstream attempt of the call raised.
AllRaised == \A i \in 1..Len(outs) : outs[i] = "raise"

\* C1: a broker call whose upstream attempts all raise makes exactly 3
\* upstream calls and then returns None; no exception escapes it.
C1_RetryBound ==
    /\ (bpc = "loop" /\ AllRaised) => upCalls < Attempts
    /\ (bpc \in {"returned", "escaped"} /\ bparams = "valid" /\ AllRaised) =>
          /\ bpc = "returned"
          /\ bresult = "None"
          /\ upCalls = Attempts

C1_Witness ==
    /\ bfn = "quote"
    /\ bpc = "returned"
    /\ outs = <<"raise", "raise", "raise">>
    /\ bresult = "None"

\* the snapshot or the quote of the current iteration is missing or malformed
BadPoll ==
    \/ option_chain.fetched = "None"
    \/ vix = "None"
    \/ /\ option_chain.fetched = "chain"
       /\ \/ option_chain.put.state # "map"
          \/ option_chain.call.state # "map"

\* C2: an open-market iteration whose chain is None, whose volatility quote
\* is None or whose snapshot lacks the put or the call expiration map is
\* skipped: nothing is flattened, nothing is persisted, the process goes on.
C2_BadPollSkipped ==
    BadPoll => (crash = "none" /\ flattened = 0 /\ iterWrites = <<>>)

\* the expiration entries of the snapshot, puts first
AllEntries == option_chain.put.entries \o option_chain.call.entries

\* C3 as claimed: a successful iteration over N put and M call expirations
\* makes N+M process_expiration calls and writes N+M distinct files, each
\* receiving the rows of one expiration entry.
C3_OneFilePerExpiration ==
    pc = "iteration_sleep" =>
        /\ flattened = Len(AllEntries)
        /\ Cardinality({iterWrites[i].file : i \in DOMAIN iterWrites}) = Len(AllEntries)

\* C3 as amended: a successful iteration makes N+M process_expiration calls
\* and N+M appends, the i-th one of as many rows as the i-th entry has
\* strikes, to the file of that entry's expiration date; there is one file
\* per distinct expiration date, shared by the put and the call expiration
\* of that date.
C3_OneAppendPerExpiration ==
    pc = "iteration_sleep" =>
        /\ flattened = Len(AllEntries)
        /\ Len(iterWrites) = Len(AllEntries)
        /\ \A i \in DOMAIN iterWrites :
              /\ iterWrites[i].rows = AllEntries[i].n
              /\ iterWrites[i].file[2] = ToString(AllEntries[i].key)
              /\ iterWrites[i].file \in DOMAIN fs[iterWrites[i].day].files
        /\ Cardinality({iterWrites[i].file : i \in DOMAIN iterWrites})
              = Cardinality({AllEntries[i].key : i \in DOMAIN AllEntries})

C3_Witness ==
    /\ pc = "iteration_sleep"
    /\ Len(option_chain.put.entries) = 2
    /\ Len(option_chain.call.entries) = 1
    /\ option_chain.put.entries[2].key = option_chain.call.entries[1].key
    /\ Len(iterWrites) = 3

\* C4: the rows of one process_expiration call all carry the same Time.
C4_SameTime ==
    \A i, j \in DOMAIN strike_list : strike_list[i].Time = strike_list[j].Time

\* a resolution has just returned to its caller
Resolved == pc \in {"loop", "closed_sleep"} /\ queries # <<>>

\* C5: the session get_next_market_hours returns had not ended at the now
\* it was compared against, and it is the session of the earliest date
\* d, d+1, .. whose session the upstream gave and whose end had not passed.
C5_FirstLiveSession ==
    Resolved =>
        LET k == Len(queries)
            last == queries[k]
        IN /\ last.hours # NoHours
           /\ last.hours.end >= last.at
           /\ last.hours = IF caller = "dig" THEN market_hours ELSE closed_hours
           /\ \A i \in 1..k : queries[i].date = DefaultDate + (i - 1)
           /\ \A i \in 1..(k - 1) :
                 \/ queries[i].hours = NoHours
                 \/ queries[i].hours.end < last.at

C5_Witness ==
    /\ Resolved
    /\ caller = "closed"
    /\ Len(queries) = 3
    /\ queries[1].hours = Session(0)
    /\ queries[2].hours = NoHours
    /\ closed_hours = Session(2)

\* C6: every pass of dig's loop polls when start <= now <= end and runs the
\* closed-market step otherwise; no pass does neither.
C6_OpenOrClosed ==
    branch # "none" =>
        IF market_hours.start <= now /\ now <= market_hours.end
        THEN branch = "open"
        ELSE branch = "closed"

\* C7: after a close the archival runs once; it does not run again before
\* the next session has been polled.
C7_ArchiveOnce == archRuns <= 1

\* the process started before the open of the session it resolved
StartedBeforeOpen == firstNow >= 0 /\ firstNow < market_hours.start

\* C8: a scheduler that starts before the open runs no archival and no
\* second resolution, sleeps (start - now) + 15 seconds, and makes its first
\* chain fetch at start + 15 seconds or later.
C8_SleepsIntoOpen ==
    StartedBeforeOpen =>
        /\ (firstFetchAt >= 0) => firstFetchAt >= market_hours.start + 15
        /\ (firstFetchAt = -1 /\ pc = "closed_sleep") =>
              /\ archRuns = 0
              /\ resolves = 1
              /\ closed_hours = market_hours
        /\ (firstFetchAt = -1 /\ sleepArg # <<>>) =>
              /\ archRuns = 0
              /\ resolves = 1
              /\ sleepArg[1] = (market_hours.start - firstNow) + 15
              /\ clock >= market_hours.start + 15

C8_Witness ==
    /\ StartedBeforeOpen
    /\ firstNow = OpenAt - 10
    /\ firstFetchAt >= OpenAt + 15
    /\ archRuns = 0

\* the state of the folder of the day, and the names in it
Folder == fs[Day(clock)].files
CsvIn(files) == {n \in DOMAIN files : EndsWith(n, "csv")}
GzIn(files) == {n \in DOMAIN files : EndsWith(n, "gz")}

\* every .csv has a .csv.gz sibling that decompresses to it, and is as before
SiblingsMade ==
    /\ CsvIn(Folder) = CsvIn(archivedFrom.files)
    /\ \A n \in CsvIn(Folder) :
          /\ Folder[n] = archivedFrom.files[n]
          /\ Append(n, "gz") \in DOMAIN Folder
          /\ Gunzip(Folder[Append(n, "gz")]) = Folder[n]

\* C9 as claimed: after the archival every .csv has its .csv.gz, the .csv
\* files are unchanged, no file that was a .csv.gz before is recompressed
\* or modified, and a second run changes nothing.
C9_ArchiveOnceForAll ==
    archRuns >= 1 =>
        /\ SiblingsMade
        /\ \A n \in GzIn(archivedFrom.files) :
              n \in DOMAIN Folder /\ Folder[n] = archivedFrom.files[n]
        /\ archRuns >= 2 => Folder = archivedFrom.files

\* C9 as amended: after the archival every .csv has its .csv.gz, the .csv
\* files are unchanged, no .csv.gz is taken as a source, a .csv.gz without
\* a .csv next to it is untouched, a .csv.gz next to its .csv is written
\* anew from that .csv, every other file is untouched, and a second run
\* leaves the same files with the same decompressed contents.
C9_Archived ==
    archRuns >= 1 =>
        /\ SiblingsMade
        /\ DOMAIN Folder =
              DOMAIN archivedFrom.files
                 \cup {Append(n, "gz") : n \in CsvIn(archivedFrom.files)}
        /\ \A n \in DOMAIN archivedFrom.files :
              \/ Folder[n] = archivedFrom.files[n]
              \/ /\ EndsWith(n, "gz")
                 /\ SubSeq(n, 1, Len(n) - 1) \in CsvIn(Folder)
                 /\ Folder[n] = Gzip(Folder[SubSeq(n, 1, Len(n) - 1)], Folder[n].mtime)
        /\ archRuns >= 2 =>
              /\ DOMAIN Folder = DOMAIN archivedFrom.files
              /\ \A n \in DOMAIN Folder :
                    Gunzip(Folder[n]) = Gunzip(archivedFrom.files[n])

C9_Witness ==
    /\ archRuns = 2
    /\ Cardinality(CsvIn(Folder)) = 2
    /\ <<"SPX", "1", "csv", "gz">> \in DOMAIN Folder
    /\ Folder[<<"SPX", "1", "csv", "gz">>] # archivedFrom.files[<<"SPX", "1", "csv", "gz">>]

\* the rows of a sequence of batches, in order
RECURSIVE Concat(_)
Concat(batches) ==
    IF batches = <<>> THEN <<>> ELSE Head(batches) \o Concat(Tail(batches))

\* C10: a file that received k >= 1 save_to_csv calls holds one header row,
\* written by the first call, and then the rows of the k calls in call
\* order; nothing written earlier is removed or rewritten.
C10_AppendOnly ==
    /\ \A f \in DOMAIN saved :
          /\ f[2] \in DOMAIN fs[f[1]].files
          /\ fs[f[1]].files[f[2]].lines = <<Header>> \o Concat(saved[f])
    /\ \A d \in DOMAIN fs : \A n \in CsvIn(fs[d].files) : <<d, n>> \in DOMAIN saved

C10_Witness ==
    \E f \in DOMAIN saved :
        /\ Len(saved[f]) = 3
        /\ Len(saved[f][1]) = 2
        /\ Len(saved[f][2]) = 1
        /\ saved[f][3][1].Time > saved[f][1][1].Time
        /\ Len(fs[f[1]].files[f[2]].lines) >= 5

\* C11: get_option_chain on a None request, or on a request that fails the
\* chain validation, returns None and has made no upstream attempt.
C11_InvalidShortCircuits ==
    (bfn = "chain" /\ bparams \in {"None", "invalid"}) =>
        /\ bpc = "returned"
        /\ bresult = "None"
        /\ upCalls = 0
        /\ outs = <<>>

C11_Witness ==
    /\ bfn = "chain"
    /\ bparams = "invalid"
    /\ bpc = "returned"
    /\ bresult = "None"
    /\ served = 1

\* every upstream attempt of the call answered with a FAILED status
AllFailedStatus == outs # <<>> /\ \A i \in 1..Len(outs) : outs[i] = "FAILED"

\* C12: in get_option_chain and in get_quote an attempt answered with status
\* "FAILED" is retried; a FAILED response is never what the call returns,
\* and after 3 such attempts the call returns None.
C12_FailedStatusRetried ==
    bfn \in {"chain", "quote"} =>
        /\ bpc = "returned" => bresult # "FAILED"
        /\ AllFailedStatus =>
              \/ bpc = "loop" /\ upCalls < Attempts
              \/ bpc = "returned" /\ bresult = "None" /\ upCalls = Attempts

\* the process has just woken from the time.sleep of iteration_sleep
WokeFromIterationSleep == pc = "loop" /\ sleepArg # <<>> /\ branch # "closed"

\* C13: for every polling interval i >= 1, iteration_sleep wakes at a whole
\* minute that is a multiple of i minutes of the wall clock, later than now
\* and at most i minutes later than now.
C13_WakesOnIntervalGrid ==
    WokeFromIterationSleep =>
        /\ clock % Minute = 0
        /\ clock % (data_interval * Minute) = 0
        /\ sleepArg[1] > 0
        /\ sleepArg[1] <= data_interval * Minute

\* the upstream answers for a date on which the product has no regular session
NoRegularSession == {"noproduct", "nohours", "noregular"}

\* C14: a market-hours query answered without a regular session for the
\* product (no entry for the product, no session hours, no regularMarket)
\* raises nothing and counts as 'no session': get_next_market_hours goes on
\* to the query for date + 1 day.
C14_NoSessionRollsForward ==
    \A i \in DOMAIN queries :
        queries[i].answer \in NoRegularSession =>
            /\ queries[i].hours = NoHours
            /\ IF i < Len(queries)
               THEN queries[i + 1].date = queries[i].date + 1
               ELSE pc = "resolve" /\ date = queries[i].date + 1

\* the process has just woken from the time.sleep of process_closed_market
WokeFromClosedSleep == pc = "loop" /\ sleepArg # <<>> /\ branch = "closed"

\* C15: when the scheduler wakes from a closed-market sleep, the session its
\* loop evaluates open/closed against is the session S' it slept towards,
\* also after a close (archival and re-resolution), and the clock is inside
\* S', so the next pass of the loop polls.
C15_NextSessionPolled ==
    WokeFromClosedSleep =>
        /\ market_hours = closed_hours
        /\ IsOpen(market_hours, clock)

\* the Time values of the rows of a file never decrease in file order
TimeOrdered(lines) ==
    \A i, j \in 2..Len(lines) : i < j => lines[i].Time <= lines[j].Time

\* C16: within one open-market iteration every put expiration is flattened
\* and persisted before any call expiration, in the order of the snapshot,
\* and an expiration is persisted before the next one is flattened; the
\* Time values of the rows of any expiration file never decrease.
C16_PutsFirstInOrder ==
    /\ \A i \in DOMAIN iterWrites :
          /\ iterWrites[i].side =
                IF i <= Len(option_chain.put.entries) THEN "put" ELSE "call"
          /\ i <= Len(AllEntries)
          /\ iterWrites[i].file[2] = ToString(AllEntries[i].key)
    /\ pc \in {"strikes", "save"} => Len(iterWrites) = flattened - 1
    /\ pc \in {"expirations", "iteration_sleep"} => Len(iterWrites) = flattened
    /\ \A d \in DOMAIN fs : \A n \in CsvIn(fs[d].files) :
          TimeOrdered(fs[d].files[n].lines)

C16_Witness ==
    /\ pc = "iteration_sleep"
    /\ Len(option_chain.put.entries) = 1
    /\ Len(option_chain.call.entries) = 2
    /\ Len(iterWrites) = 3
    /\ \E n \in CsvIn(Folder) :
          Folder[n].lines[2].Time < Folder[n].lines[Len(Folder[n].lines)].Time

\* the answer to a query was no session, or a session that had ended
Dead(q) == q.hours = NoHours \/ q.hours.end < q.at

\* C17: get_next_market_hours(d) queries d, d+1, d+2, .. in that order, one
\* day at a time; a query goes on to the next day only when its answer was
\* no session or an ended session, so the first live session stops it; as
\* long as no live session was supplied the call has not returned, and it
\* never returns 'no session'.
C17_ResolutionOrder ==
    /\ \A i \in DOMAIN queries :
          /\ queries[i].date = DefaultDate + (i - 1)
          /\ i < Len(queries) => Dead(queries[i])
    /\ pc = "resolve" =>
          /\ date = DefaultDate + Len(queries)
          /\ \A i \in DOMAIN queries : Dead(queries[i])
    /\ (queries # <<>> /\ \A i \in DOMAIN queries : Dead(queries[i])) =>
          pc \in {"resolve", "crashed"}
    /\ Resolved =>
          /\ ~Dead(queries[Len(queries)])
          /\ NoHours # IF caller = "dig" THEN market_hours ELSE closed_hours

C17_Witness ==
    /\ Resolved
    /\ caller = "dig"
    /\ Len(queries) = 2
    /\ queries[1].answer = "noproduct"
    /\ queries[2].answer = "session"
    /\ market_hours = Session(1)

\* the upstream answered the attempt with a response that is not a failure
Succeeded(out) == out \notin {"raise", "FAILED"}

\* what a call returns for the response of its successful attempt
ReturnedFor(out) ==
    IF out \in {"null", "noproduct"} THEN "None" ELSE out

\* C18: in every broker call the first successful attempt ends the retry
\* loop and its response is what the call returns; no attempt follows a
\* success, and a call makes between 1 and 3 upstream attempts, j + 1 of
\* them when j failures are followed by a success.
C18_FirstSuccessEnds ==
    (bfn # "none" /\ bparams = "valid") =>
        /\ upCalls = Len(outs)
        /\ upCalls <= Attempts
        /\ bpc \in {"returned", "escaped"} => upCalls >= 1
        /\ \A i \in 1..(Len(outs) - 1) : ~Succeeded(outs[i])
        /\ (outs # <<>> /\ Succeeded(outs[Len(outs)])) =>
              /\ bpc # "loop"
              /\ bpc = "returned" => bresult = ReturnedFor(outs[Len(outs)])

C18_Witness ==
    /\ bfn = "hours"
    /\ outs = <<"raise", "raise", "session">>
    /\ bpc = "returned"
    /\ bresult = "session"
    /\ upCalls = 3

\* C19: the duration given to time.sleep is never negative: not in
\* process_closed_market, whatever session was re-resolved and whenever the
\* loop last woke, and the duration of the polling sleep is positive.
C19_SleepNonNegative ==
    sleepArg # <<>> =>
        /\ sleepArg[1] >= 0
        /\ branch # "closed" => sleepArg[1] > 0

\* C20: when process_open_market is about to fetch the chain, the process
\* has slept since the previous fetch, also when the previous iteration was
\* skipped; two fetches never follow each other without a sleep.
C20_SleepBetweenFetches == pc = "open" => sleptSinceFetch

====
